---- MODULE Spec2Model ----
(***************************************************************************)
(* A model of the CSS transformer of ns-tailwind-vite                      *)
(* (src/src/css-transformer.js).  Stylesheets are TLA+ strings, read one   *)
(* character at a time the way the JavaScript does; positions are 1-based  *)
(* here and 0-based in the source.                                         *)
(***************************************************************************)
EXTENDS Integers, Sequences, FiniteSets, TLC

VARIABLES doc, css, rules, idx, output, result, first, pass, pc,
          pieces, prop, value, converted, declResult,
          scanPos, depth, bodyStart, head

vars == <<doc, css, rules, idx, output, result, first, pass, pc,
          pieces, prop, value, converted, declResult,
          scanPos, depth, bodyStart, head>>

docVars == <<doc, css, rules, idx, output, result, first, pass>>

\* the locals of parseCSS: i, braceCount, bodyStart and the construct that
\* is open while its block is scanned
scanVars == <<scanPos, depth, bodyStart, head>>
declVars == <<pieces, prop, value, converted, declResult>>

(***************************************************************************)
(* Bounds of the model.                                                    *)
(***************************************************************************)
MaxPieces == 3
MaxItems == 3
MaxDepth == 2
MaxTokens == 3

(***************************************************************************)
(* JavaScript string primitives.                                           *)
(***************************************************************************)
Digits == <<"0", "1", "2", "3", "4", "5", "6", "7", "8", "9">>
Digit == {Digits[k] : k \in 1..10}
Ws == {" ", "\n", "\t"}
Letter == {"a", "b", "c", "d", "e", "f", "g", "h", "i", "j", "k", "l", "m",
           "n", "o", "p", "q", "r", "s", "t", "u", "v", "w", "x", "y", "z",
           "A", "B", "C", "D", "E", "F", "G", "H", "I", "J", "K", "L", "M",
           "N", "O", "P", "Q", "R", "S", "T", "U", "V", "W", "X", "Y", "Z"}
WordChar == Letter \cup Digit \cup {"_"}

\* the least k of lo..hi with P(k), 0 if there is none
FirstIn(lo, hi, P(_)) ==
  IF \E k \in lo..hi : P(k)
  THEN CHOOSE k \in lo..hi : P(k) /\ \A j \in lo..(k - 1) : ~P(j)
  ELSE 0

\* the greatest k of lo..hi with P(k), 0 if there is none
LastIn(lo, hi, P(_)) ==
  IF \E k \in lo..hi : P(k)
  THEN CHOOSE k \in lo..hi : P(k) /\ \A j \in (k + 1)..hi : ~P(j)
  ELSE 0

\* s[i], the empty string past either end
Ch(s, i) == IF i >= 1 /\ i <= Len(s) THEN SubSeq(s, i, i) ELSE ""

\* s.slice(from - 1), in 1-based positions
From(s, from) == SubSeq(s, from, Len(s))

\* the text t stands at position i of s
At(s, i, t) == i >= 1 /\ i + Len(t) - 1 <= Len(s) /\ SubSeq(s, i, i + Len(t) - 1) = t

\* s.indexOf(t, from - 1) + 1: 0 when t does not occur
IndexOfFrom(s, t, from) ==
  FirstIn(from, Len(s) - Len(t) + 1, LAMBDA i : At(s, i, t))

Includes(s, t) == IndexOfFrom(s, t, 1) # 0
StartsWith(s, t) == At(s, 1, t)
EndsWith(s, t) == Len(t) <= Len(s) /\ At(s, Len(s) - Len(t) + 1, t)

\* s.trim()
TrimFrom(s, a) ==
  IF a = 0 THEN "" ELSE SubSeq(s, a, LastIn(1, Len(s), LAMBDA i : Ch(s, i) \notin Ws))

Trim(s) == TrimFrom(s, FirstIn(1, Len(s), LAMBDA i : Ch(s, i) \notin Ws))

\* the end (exclusive) of the run of characters of class C that starts at i
RunEndAt(s, i, k) == IF i > Len(s) THEN i ELSE IF k = 0 THEN Len(s) + 1 ELSE k

RunEnd(s, i, C) == RunEndAt(s, i, FirstIn(i, Len(s), LAMBDA j : Ch(s, j) \notin C))

\* s.replace(/pat/g, rep) for a literal pattern
RECURSIVE ReplaceAll(_, _, _)
ReplaceAllAt(s, pat, rep, i) ==
  IF i = 0 THEN s
  ELSE SubSeq(s, 1, i - 1) \o rep \o ReplaceAll(From(s, i + Len(pat)), pat, rep)

ReplaceAll(s, pat, rep) == ReplaceAllAt(s, pat, rep, IndexOfFrom(s, pat, 1))

\* s.split(sep)
RECURSIVE Split(_, _)
SplitAt(s, sep, i) ==
  IF i = 0 THEN <<s>>
  ELSE <<SubSeq(s, 1, i - 1)>> \o Split(From(s, i + Len(sep)), sep)

Split(s, sep) == SplitAt(s, sep, IndexOfFrom(s, sep, 1))

\* parts.join(sep)
RECURSIVE Join(_, _)
Join(parts, sep) ==
  IF Len(parts) = 0 THEN ""
  ELSE IF Len(parts) = 1 THEN parts[1]
  ELSE parts[1] \o sep \o Join(Tail(parts), sep)

(***************************************************************************)
(* Decimal arithmetic of String(parseFloat(num) * 16).  Scaling a double   *)
(* by 16 is exact, so the product prints as the exact decimal product.     *)
(***************************************************************************)
DigitVal(c) == (CHOOSE k \in 1..10 : Digits[k] = c) - 1

RECURSIVE ToInt(_)
ToInt(s) ==
  IF s = "" THEN 0
  ELSE ToInt(SubSeq(s, 1, Len(s) - 1)) * 10 + DigitVal(Ch(s, Len(s)))

RECURSIVE ToStr(_)
ToStr(n) == IF n < 10 THEN Digits[n + 1] ELSE ToStr(n \div 10) \o Digits[(n % 10) + 1]

RECURSIVE Pow10(_)
Pow10(k) == IF k = 0 THEN 1 ELSE 10 * Pow10(k - 1)

RECURSIVE PadZeros(_, _)
PadZeros(s, width) == IF Len(s) >= width THEN s ELSE PadZeros("0" \o s, width)

RECURSIVE StripZeros(_)
StripZeros(s) ==
  IF s # "" /\ Ch(s, Len(s)) = "0" THEN StripZeros(SubSeq(s, 1, Len(s) - 1)) ELSE s

\* the integer part and the fraction digits, printed as JavaScript prints
PrintDecimal(ip, frac) == IF frac = "" THEN ToStr(ip) ELSE ToStr(ip) \o "." \o frac

\* n / 10^b printed
PrintScaled(n, b) ==
  PrintDecimal(n \div Pow10(b), StripZeros(PadZeros(ToStr(n % Pow10(b)), b)))

\* 16 times the number of integer digits ip and fraction digits fp
Times16Parts(ip, fp) ==
  PrintScaled((ToInt(ip) * Pow10(Len(fp)) + ToInt(fp)) * 16, Len(fp))

Times16At(num, dot) ==
  IF dot = 0 THEN Times16Parts(num, "")
  ELSE Times16Parts(SubSeq(num, 1, dot - 1), From(num, dot + 1))

\* String(parseFloat(num) * 16), num matching \d*\.?\d+
Times16(num) == Times16At(num, IndexOfFrom(num, ".", 1))

(***************************************************************************)
(* remRE = /(\d*\.?\d+)\s*r?em/g                                           *)
(***************************************************************************)
\* the end (exclusive) of the text that (\d*\.?\d+) captures at i, 0 if none,
\* a being the end of the digits at i: a digit run that a "." and a digit
\* follow cannot end the capture, since \s*r?em does not match at the "."
NumEndAfter(s, i, a) ==
  IF Ch(s, a) = "." /\ Ch(s, a + 1) \in Digit THEN RunEnd(s, a + 1, Digit)
  ELSE IF a > i THEN a
  ELSE 0

NumEnd(s, i) == NumEndAfter(s, i, RunEnd(s, i, Digit))

\* the end (exclusive) of r?em at u, 0 if it does not stand there
UnitEnd(s, u) ==
  IF At(s, u, "rem") THEN u + 3
  ELSE IF At(s, u, "em") THEN u + 2
  ELSE 0

\* the end (exclusive) of \s*r?em after a capture that ends at n
RemMatchAfter(s, n) == IF n = 0 THEN 0 ELSE UnitEnd(s, RunEnd(s, n, Ws))

\* the end (exclusive) of the match of remRE that starts at i, 0 if none
RemMatchEnd(s, i) == RemMatchAfter(s, NumEnd(s, i))

\* the start of the leftmost match of remRE from i on, 0 if none
NextRemMatch(s, i) == FirstIn(i, Len(s), LAMBDA j : RemMatchEnd(s, j) # 0)

\* value.replace(remRE, (match, num) => String(parseFloat(num) * 16))
RECURSIVE ReplaceRem(_, _)
ReplaceRemAt(s, i, k) ==
  IF k = 0 THEN From(s, i)
  ELSE SubSeq(s, i, k - 1) \o Times16(SubSeq(s, k, NumEnd(s, k) - 1))
         \o ReplaceRem(s, RemMatchEnd(s, k))

ReplaceRem(s, i) == ReplaceRemAt(s, i, NextRemMatch(s, i))

\* a plausible slip: remRE without the g flag, only the first match replaced
ReplaceRemOnceAt(s, i, k) ==
  IF k = 0 THEN From(s, i)
  ELSE SubSeq(s, i, k - 1) \o Times16(SubSeq(s, k, NumEnd(s, k) - 1))
         \o From(s, RemMatchEnd(s, k))

ReplaceRemOnce(s, i) == ReplaceRemOnceAt(s, i, NextRemMatch(s, i))

transformValueOnce(v) ==
  IF v = "" THEN v
  ELSE IF Includes(v, "rem") \/ Includes(v, "em") THEN ReplaceRemOnce(v, 1)
  ELSE v

\* transformValue(value); the debug log is not modelled
transformValue(v) ==
  IF v = "" THEN v
  ELSE IF Includes(v, "rem") \/ Includes(v, "em") THEN ReplaceRem(v, 1)
  ELSE v

(***************************************************************************)
(* The support tables.                                                     *)
(***************************************************************************)
\* the keys of supportedProperties whose entry is `true`
AlwaysSupported ==
  {"align-content", "align-items", "align-self",
   "android-selected-tab-highlight-color", "android-elevation",
   "android-dynamic-elevation-offset", "animation", "animation-delay",
   "animation-direction", "animation-duration", "animation-fill-mode",
   "animation-iteration-count", "animation-name", "animation-timing-function",
   "background", "background-color", "background-image", "background-position",
   "background-size", "border-bottom-color", "border-bottom-left-radius",
   "border-bottom-right-radius", "border-bottom-width", "border-color",
   "border-left-color", "border-left-width", "border-radius",
   "border-right-color", "border-right-width", "border-top-color",
   "border-top-left-radius", "border-top-right-radius", "border-top-width",
   "border-width", "box-shadow", "clip-path", "color", "flex", "flex-grow",
   "flex-direction", "flex-shrink", "flex-wrap", "font", "font-family",
   "font-size", "font-weight", "font-variation-settings", "height",
   "highlight-color", "justify-content", "justify-items", "justify-self",
   "letter-spacing", "line-height", "margin", "margin-bottom", "margin-left",
   "margin-right", "margin-top", "margin-block", "margin-block-start",
   "margin-block-end", "margin-inline", "margin-inline-start",
   "margin-inline-end", "min-height", "min-width", "max-height", "max-width",
   "off-background-color", "opacity", "order", "padding", "padding-block",
   "padding-bottom", "padding-inline", "padding-left", "padding-right",
   "padding-top", "place-content", "placeholder-color", "place-items",
   "place-self", "selected-tab-text-color", "tab-background-color",
   "tab-text-color", "tab-text-font-size", "text-shadow", "transform",
   "rotate", "width", "z-index"}

\* the keys of supportedProperties whose entry is an array of values
EnumeratedValues ==
  ("background-repeat" :> {"repeat", "repeat-x", "repeat-y", "no-repeat"}) @@
  ("font-style" :> {"italic", "normal"}) @@
  ("horizontal-align" :> {"left", "center", "right", "stretch"}) @@
  ("text-transform" :> {"none", "capitalize", "uppercase", "lowercase"}) @@
  ("text-align" :> {"left", "center", "right"}) @@
  ("text-decoration" :> {"none", "line-through", "underline"}) @@
  ("vertical-align" :> {"top", "center", "bottom", "stretch"}) @@
  ("visibility" :> {"visible", "collapse"})

\* the own keys of the object literal
supportedProperties == AlwaysSupported \cup DOMAIN EnumeratedValues

\* supportedProperties is an object literal, so supportedProperties[prop]
\* also finds what Object.prototype holds under these names, all truthy
\* and none an array
ObjectPrototypeKeys ==
  {"constructor", "toString", "toLocaleString", "valueOf", "hasOwnProperty",
   "isPrototypeOf", "propertyIsEnumerable", "__proto__", "__defineGetter__",
   "__defineSetter__", "__lookupGetter__", "__lookupSetter__"}

unsupportedPseudoSelectors == {":focus-within", ":hover"}
unsupportedValues == {"max-content", "min-content", "vh", "vw"}

\* isSupportedProperty(prop, val)
isSupportedProperty(p, val) ==
  IF p \notin supportedProperties \cup ObjectPrototypeKeys THEN FALSE
  ELSE IF val # ""
       THEN IF \E unit \in unsupportedValues : EndsWith(val, unit) THEN FALSE
            ELSE IF p \in DOMAIN EnumeratedValues THEN val \in EnumeratedValues[p]
            ELSE TRUE
  ELSE TRUE

\* a plausible slip: the pseudo-class list not consulted
isSupportedSelectorAll(selector) == TRUE

\* isSupportedSelector(selector)
isSupportedSelector(selector) ==
  ~ \E pseudo \in unsupportedPseudoSelectors : Includes(selector, pseudo)

(***************************************************************************)
(* Declarations.                                                           *)
(***************************************************************************)
\* expandAnimation(value): the shorthand parser is an external package; the
\* model takes the path the source itself defines, the catch branch
expandAnimation(v) == "animation: " \o v

Dropped == [kept |-> FALSE, prop |-> "", value |-> ""]
Kept(p, v) == [kept |-> TRUE, prop |-> p, value |-> v]

\* a plausible slip: custom properties put to the support table as well
CheckSupportedNoExemption(p, transformedValue) ==
  IF ~isSupportedProperty(p, transformedValue) THEN Dropped
  ELSE Kept(p, transformedValue)

\* the support check on the transformed value
CheckSupported(p, transformedValue) ==
  IF ~StartsWith(p, "--") /\ ~isSupportedProperty(p, transformedValue) THEN Dropped
  ELSE Kept(p, transformedValue)

\* a plausible slip: the two keyword renames left out
transformDeclarationNoRename(p, v) ==
  IF \E varName \in {"tw-ring", "tw-shadow", "tw-ordinal", "tw-slashed-zero", "tw-numeric"} :
       StartsWith(p, "--" \o varName)
  THEN Dropped
  ELSE IF \E w \in {"divide", "space"}, axis \in {"x", "y"} :
            Includes(p, "--tw-" \o w \o "-" \o axis \o "-reverse")
  THEN Dropped
  ELSE IF Includes(v, "color-mix") THEN Dropped
  ELSE IF Includes(v, "currentColor") THEN Dropped
  ELSE IF p = "animation" THEN Kept("__expanded__", expandAnimation(v))
  ELSE CheckSupported(p, transformValue(v))

\* transformDeclaration(prop, value): null is Dropped
transformDeclaration(p, v) ==
  IF \E varName \in {"tw-ring", "tw-shadow", "tw-ordinal", "tw-slashed-zero", "tw-numeric"} :
       StartsWith(p, "--" \o varName)
  THEN Dropped
  ELSE IF \E w \in {"divide", "space"}, axis \in {"x", "y"} :
            Includes(p, "--tw-" \o w \o "-" \o axis \o "-reverse")
  THEN Dropped
  ELSE IF Includes(v, "color-mix") THEN Dropped
  ELSE IF Includes(v, "currentColor") THEN Dropped
  ELSE IF p = "visibility" /\ v = "hidden" THEN Kept(p, "collapse")
  ELSE IF p = "vertical-align" /\ v = "middle" THEN Kept(p, "center")
  ELSE IF p = "animation" THEN Kept("__expanded__", expandAnimation(v))
  ELSE CheckSupported(p, transformValue(v))

\* if (prop && value) declarations.push({ prop, value })
PushDeclaration(p, v, rest) ==
  IF p = "" \/ v = "" THEN rest ELSE <<[prop |-> p, value |-> v]>> \o rest

\* one part of the body, trimmed, its first colon at colonIndex
DeclarationAt(trimmed, colonIndex, rest) ==
  IF trimmed = "" \/ colonIndex = 0 THEN rest
  ELSE PushDeclaration(Trim(SubSeq(trimmed, 1, colonIndex - 1)),
                       Trim(From(trimmed, colonIndex + 1)), rest)

DeclarationOf(trimmed, rest) == DeclarationAt(trimmed, IndexOfFrom(trimmed, ":", 1), rest)

\* the loop of parseDeclarations over the parts of the body
RECURSIVE DeclarationsOf(_)
DeclarationsOf(parts) ==
  IF Len(parts) = 0 THEN <<>>
  ELSE DeclarationOf(Trim(parts[1]), DeclarationsOf(Tail(parts)))

\* parseDeclarations(body)
parseDeclarations(body) == DeclarationsOf(Split(body, ";"))

(***************************************************************************)
(* Selectors.                                                              *)
(***************************************************************************)
\* selector.replace(/:where\(([^)]+)\)/g, "$1")
RECURSIVE ReplaceWhere(_)
\* ":where(" stands at i and the next ")" at q
ReplaceWhereTo(s, i, q) ==
  IF q = 0 THEN s
  ELSE IF q = i + 7 THEN SubSeq(s, 1, i + 6) \o ReplaceWhere(From(s, i + 7))
  ELSE SubSeq(s, 1, i - 1) \o SubSeq(s, i + 7, q - 1) \o ReplaceWhere(From(s, q + 1))

ReplaceWhereAt(s, i) == IF i = 0 THEN s ELSE ReplaceWhereTo(s, i, IndexOfFrom(s, ")", i + 7))

ReplaceWhere(s) == ReplaceWhereAt(s, IndexOfFrom(s, ":where(", 1))

rootClasses == ".ns-root, .ns-modal"

\* the rewrites of transformSelector before "::placeholder" is handled
RewritePseudos(selector) ==
  ReplaceAll(
    ReplaceAll(
      ReplaceWhere(
        ReplaceAll(ReplaceAll(selector, ":root", rootClasses), ":host", rootClasses)),
      ":not(:last-child)", "* + *"),
    ":not([hidden]) ~ :not([hidden])", "* + *")

\* if (selector.includes("::placeholder")) selector = selector.replace(...)
RemovePlaceholder(selector) ==
  IF Includes(selector, "::placeholder") THEN ReplaceAll(selector, "::placeholder", "")
  ELSE selector

\* a plausible slip: "::placeholder" left in the selector
transformSelectorKeepPlaceholder(selector) == Trim(RewritePseudos(selector))

\* transformSelector(selector)
transformSelector(selector) == Trim(RemovePlaceholder(RewritePseudos(selector)))

(***************************************************************************)
(* parseCSS: the splitter of top-level rules and at-rules.                 *)
(***************************************************************************)
\* css.slice(m - 1, n), empty when the end precedes the start
Slice(s, m, n) == IF n < m THEN "" ELSE SubSeq(s, m, IF n > Len(s) THEN Len(s) ELSE n)

AtRule(name, params, hasBody, body) ==
  [type |-> "at-rule", name |-> name, params |-> params, selector |-> "",
   hasBody |-> hasBody, body |-> body]

Rule(selector, body) ==
  [type |-> "rule", name |-> "", params |-> "", selector |-> selector,
   hasBody |-> TRUE, body |-> body]

\* a plausible slip: nested braces not counted, the block ends at the first "}"
MatchBraceFlatAt(s, i, k) ==
  IF k # 0 THEN k + 1 ELSE IF i > Len(s) THEN i ELSE Len(s) + 1

MatchBraceFlat(s, i, braceCount) ==
  MatchBraceFlatAt(s, i, FirstIn(i, Len(s), LAMBDA j : Ch(s, j) = "}"))

\* while (i < css.length && braceCount > 0) { ... i++ }: the final i, the
\* characters that are not braces stepped over at once up to the brace at k
RECURSIVE MatchBrace(_, _, _)
MatchBraceAt(s, k, braceCount) ==
  IF k = 0 THEN Len(s) + 1
  ELSE MatchBrace(s, k + 1, IF Ch(s, k) = "{" THEN braceCount + 1 ELSE braceCount - 1)

MatchBrace(s, i, braceCount) ==
  IF i > Len(s) \/ braceCount = 0 THEN i
  ELSE MatchBraceAt(s, FirstIn(i, Len(s), LAMBDA j : Ch(s, j) \in {"{", "}"}), braceCount)

\* the end (exclusive) of the name matched by /^@(\w+)([^{;]*)(;|\{)/ at i
AtNameEnd(s, i) == RunEnd(s, i + 1, WordChar)

\* the position of the terminator matched by (;|\{), 0 if there is none
AtTerminator(s, nameEnd) == FirstIn(nameEnd, Len(s), LAMBDA k : Ch(s, k) \in {"{", ";"})

RECURSIVE ParseFrom(_, _)

\* if (selector && body) result.push({ type: "rule", selector, body })
PushRule(selector, body, rest) ==
  IF selector # "" /\ body # "" THEN <<Rule(selector, body)>> \o rest ELSE rest

\* the body of the rule whose "{" is at selectorEnd, the scan ending at e
ParseRuleBody(s, selector, selectorEnd, e) ==
  PushRule(selector, Trim(Slice(s, selectorEnd + 1, e - 2)), ParseFrom(s, e))

\* a rule at i: selectorEnd = css.indexOf("{", i), the loop is left at -1
ParseRule(s, i, selectorEnd) ==
  IF selectorEnd = 0 THEN <<>>
  ELSE ParseRuleBody(s, Trim(Slice(s, i, selectorEnd - 1)), selectorEnd,
                     MatchBrace(s, selectorEnd + 1, 1))

\* the at-rule with a block opened at t, the scan ending at e
ParseBlock(s, name, params, t, e) ==
  <<AtRule(name, params, TRUE, Slice(s, t + 1, e - 2))>> \o ParseFrom(s, e)

\* "@" at i: the at-rule when the pattern matches (a name, then a
\* terminator at t), the rule otherwise
ParseAtRule(s, i, nameEnd, t) ==
  IF nameEnd > i + 1 /\ t # 0
  THEN IF Ch(s, t) = "{"
       THEN ParseBlock(s, SubSeq(s, i + 1, nameEnd - 1), Trim(Slice(s, nameEnd, t - 1)),
                       t, MatchBrace(s, t + 1, 1))
       ELSE <<AtRule(SubSeq(s, i + 1, nameEnd - 1), Trim(Slice(s, nameEnd, t - 1)),
                     FALSE, "null")>> \o ParseFrom(s, t + 1)
  ELSE ParseRule(s, i, IndexOfFrom(s, "{", i))

ParseAtSign(s, i, nameEnd) == ParseAtRule(s, i, nameEnd, AtTerminator(s, nameEnd))

\* the construct at i, the white space skipped
ParseAt(s, i) ==
  IF i > Len(s) THEN <<>>
  ELSE IF Ch(s, i) = "@" THEN ParseAtSign(s, i, AtNameEnd(s, i))
  ELSE ParseRule(s, i, IndexOfFrom(s, "{", i))

\* the loop of parseCSS, from position i0 on
ParseFrom(s, i0) == ParseAt(s, RunEnd(s, i0, Ws))

\* parseCSS(css)
parseCSS(s) == ParseFrom(s, 1)

(***************************************************************************)
(* transformNativeScriptCSS: what one node of the parse adds to `output`.  *)
(***************************************************************************)
\* for placeholder rules, color becomes placeholder-color
ActualProp(p, isPlaceholder) ==
  IF isPlaceholder /\ p = "color" THEN "placeholder-color" ELSE p

\* if (transformed) transformedDecls.push(...)
PushTransformed(transformed, rest) ==
  IF ~transformed.kept THEN rest
  ELSE IF transformed.prop = "__expanded__" THEN <<transformed.value>> \o rest
  ELSE <<transformed.prop \o ": " \o transformed.value>> \o rest

\* the loop over the declarations of a rule: transformedDecls
RECURSIVE TransformedDecls(_, _)
TransformedDecls(declarations, isPlaceholder) ==
  IF Len(declarations) = 0 THEN <<>>
  ELSE PushTransformed(
         transformDeclaration(ActualProp(declarations[1].prop, isPlaceholder),
                              declarations[1].value),
         TransformedDecls(Tail(declarations), isPlaceholder))

\* the rule is skipped before its declarations are read
RuleRejected(rule) ==
  \/ Includes(rule.selector, "&")
  \/ ~isSupportedSelector(rule.selector)
  \/ transformSelector(rule.selector) = ""

\* if (transformedDecls.length > 0) output.push(...)
RuleFragment(selector, transformedDecls) ==
  IF Len(transformedDecls) = 0 THEN <<>>
  ELSE <<selector \o " {\n  " \o Join(transformedDecls, ";\n  ") \o ";\n}">>

\* the branch rule.type === "rule": the fragments pushed, none or one
RuleOutput(rule) ==
  IF RuleRejected(rule) THEN <<>>
  ELSE RuleFragment(transformSelector(rule.selector),
                    TransformedDecls(parseDeclarations(rule.body),
                                     Includes(rule.selector, "::placeholder")))

\* the fragment pushed for @keyframes
KeyframesOutput(rule) == <<"@keyframes " \o rule.params \o " {\n" \o rule.body \o "\n}">>

\* if (rule.body): a block that is not the empty string
HasTruthyBody(rule) == rule.hasBody /\ rule.body # ""

RECURSIVE transformNativeScriptCSS(_)

\* a plausible slip: @media and @supports flattened the way @layer is
NodeOutputFlattenMedia(rule) ==
  IF rule.type = "at-rule"
  THEN IF rule.name \in {"layer", "media", "supports"}
       THEN IF HasTruthyBody(rule) THEN <<transformNativeScriptCSS(rule.body)>> ELSE <<>>
       ELSE IF rule.name = "keyframes" THEN KeyframesOutput(rule)
       ELSE <<>>
  ELSE RuleOutput(rule)

\* a plausible slip: the body of @layer pushed as it stands
NodeOutputRawLayer(rule) ==
  IF rule.type = "at-rule"
  THEN IF rule.name = "layer"
       THEN IF HasTruthyBody(rule) THEN <<Trim(rule.body)>> ELSE <<>>
       ELSE IF rule.name = "keyframes" THEN KeyframesOutput(rule)
       ELSE <<>>
  ELSE RuleOutput(rule)

\* the body of the for loop, for one node
NodeOutput(rule) ==
  IF rule.type = "at-rule"
  THEN IF rule.name = "layer"
       THEN IF HasTruthyBody(rule) THEN <<transformNativeScriptCSS(rule.body)>> ELSE <<>>
       ELSE IF rule.name = "keyframes" THEN KeyframesOutput(rule)
       ELSE <<>>
  ELSE RuleOutput(rule)

RECURSIVE OutputOf(_)
OutputOf(nodes) == IF Len(nodes) = 0 THEN <<>> ELSE NodeOutput(nodes[1]) \o OutputOf(Tail(nodes))

\* transformNativeScriptCSS(css, options)
transformNativeScriptCSS(s) == Join(OutputOf(parseCSS(s)), "\n\n")

(***************************************************************************)
(* The stylesheets the model is run on: a stylesheet is a sequence of      *)
(* items, rendered to the text the transformer reads.                      *)
(***************************************************************************)
Decl(p, v) == [prop |-> p, value |-> v]

RuleItem(selector, decls) ==
  [kind |-> "rule", selector |-> selector, decls |-> decls, name |-> "",
   params |-> "", body |-> "", kids |-> <<>>]

BlockItem(name, params, body) ==
  [kind |-> "block", selector |-> "", decls |-> <<>>, name |-> name,
   params |-> params, body |-> body, kids |-> <<>>]

LineItem(name, params) ==
  [kind |-> "line", selector |-> "", decls |-> <<>>, name |-> name,
   params |-> params, body |-> "", kids |-> <<>>]

LayerItem(params, kids) ==
  [kind |-> "layer", selector |-> "", decls |-> <<>>, name |-> "layer",
   params |-> params, body |-> "", kids |-> kids]

RECURSIVE RenderDecls(_)
RenderDecls(decls) ==
  IF Len(decls) = 0 THEN ""
  ELSE " " \o decls[1].prop \o ": " \o decls[1].value \o ";" \o RenderDecls(Tail(decls))

RECURSIVE RenderDoc(_)
RenderItem(item) ==
  IF item.kind = "rule" THEN item.selector \o " {" \o RenderDecls(item.decls) \o " }"
  ELSE IF item.kind = "block" THEN "@" \o item.name \o " " \o item.params \o " {" \o item.body \o "}"
  ELSE IF item.kind = "line" THEN "@" \o item.name \o " " \o item.params \o ";"
  ELSE "@layer " \o item.params \o " { " \o RenderDoc(item.kids) \o " }"

RenderDoc(items) ==
  IF Len(items) = 0 THEN ""
  ELSE IF Len(items) = 1 THEN RenderItem(items[1])
  ELSE RenderItem(items[1]) \o "\n" \o RenderDoc(Tail(items))

GoodRule == RuleItem(".a", <<Decl("margin", "1.5rem"), Decl("color", "red")>>)
HoverRule == RuleItem(".b:hover", <<Decl("--x", "1"), Decl("color", "red")>>)
MediaBlock == BlockItem("media", "(min-width: 1px)", " .bar { color: blue; } ")
GridRule == RuleItem(".g", <<Decl("display", "grid"), Decl("cursor", "pointer")>>)
DroppedLayer == LayerItem("base", <<GridRule>>)
PlaceholderRule == RuleItem("input::placeholder", <<Decl("color", "gray")>>)
KeywordRule ==
  RuleItem(".v", <<Decl("visibility", "hidden"), Decl("vertical-align", "middle"),
                   Decl("float", "left")>>)
SpinKeyframes ==
  BlockItem("keyframes", "spin", " to { transform: rotate(360deg); margin: 1rem; } ")

\* the items that stand at any position of a stylesheet
CoreItems == {GoodRule, HoverRule, DroppedLayer}

LeafItems ==
  {RuleItem("&.x", <<Decl("color", "red")>>),
   RuleItem(".c:focus-within", <<Decl("margin", "0")>>),
   RuleItem(":root", <<Decl("--tw-ring-inset", "1px"), Decl("color", "red")>>),
   PlaceholderRule,
   RuleItem("textarea::placeholder", <<Decl("color", "currentColor"), Decl("opacity", "1")>>),
   RuleItem("::placeholder", <<Decl("color", "gray")>>),
   GridRule,
   KeywordRule,
   MediaBlock,
   RuleItem(".p", <<Decl("constructor", "x")>>),
   BlockItem("supports", "(display: grid)", " .s { color: red; } "),
   BlockItem("property", "--x", " syntax: \"*\"; inherits: false; "),
   BlockItem("font-face", "", " font-family: x; "),
   BlockItem("media", "print", " @keyframes k { to { opacity: 0; } } .m { color: red; } "),
   LineItem("import", "\"tailwindcss\""),
   LineItem("layer", "theme, base"),
   SpinKeyframes,
   BlockItem("keyframes", "fade", " from { filter: blur(1px); } to { opacity: 0; } ")}

\* what an innermost @layer block holds
KidSeqs ==
  {<<>>, <<HoverRule>>, <<GoodRule, HoverRule>>, <<MediaBlock, PlaceholderRule>>,
   <<SpinKeyframes, GoodRule>>}

\* the @layer blocks nested to depth d at most
RECURSIVE LayersUpTo(_)
LayersUpTo(d) ==
  IF d = 1 THEN {LayerItem("base", kids) : kids \in KidSeqs}
  ELSE LayersUpTo(1)
       \cup {LayerItem("components", <<inner>>) : inner \in LayersUpTo(d - 1)}
       \cup {LayerItem("utilities", <<GoodRule, inner, KeywordRule>>) : inner \in LayersUpTo(d - 1)}

FocusItems == LeafItems \cup LayersUpTo(MaxDepth)

\* the stylesheets of n items, one of them at most outside CoreItems
RECURSIVE CoreDocs(_)
CoreDocs(n) ==
  IF n = 0 THEN {<<>>}
  ELSE {<<c>> \o d : c \in CoreItems, d \in CoreDocs(n - 1)}

RECURSIVE DocsOf(_)
DocsOf(n) ==
  IF n = 0 THEN {<<>>}
  ELSE {<<c>> \o d : c \in CoreItems, d \in DocsOf(n - 1)}
       \cup {<<f>> \o d : f \in FocusItems, d \in CoreDocs(n - 1)}

Docs == UNION {DocsOf(n) : n \in 0..MaxItems}

(***************************************************************************)
(* The state machine: one run of transformNativeScriptCSS over `css`, its  *)
(* for loop one node at a time, and a second run on the result.            *)
(***************************************************************************)
\* the locals of parseCSS while no scan is followed step by step
ScanIdle ==
  /\ scanPos = 0
  /\ depth = 0
  /\ bodyStart = 0
  /\ head = Rule("", "")

Init ==
  /\ doc \in Docs
  /\ css = RenderDoc(doc)
  /\ rules = <<>>
  /\ idx = 0
  /\ output = <<>>
  /\ result = ""
  /\ first = ""
  /\ pass = 1
  /\ pc = "parse"
  /\ pieces = <<>>
  /\ prop = ""
  /\ value = ""
  /\ converted = ""
  /\ declResult = Dropped
  /\ ScanIdle

\* const rules = parseCSS(css); const output = []
Parse ==
  /\ pc = "parse"
  /\ rules' = parseCSS(css)
  /\ idx' = 1
  /\ output' = <<>>
  /\ pc' = "loop"
  /\ UNCHANGED <<doc, css, result, first, pass>>
  /\ UNCHANGED declVars
  /\ UNCHANGED scanVars

InLoop == pc = "loop" /\ idx <= Len(rules)

\* one iteration of the for loop: the node's fragments are pushed
Step ==
  /\ output' = output \o NodeOutput(rules[idx])
  /\ idx' = idx + 1
  /\ UNCHANGED <<doc, css, rules, result, first, pass, pc>>
  /\ UNCHANGED declVars
  /\ UNCHANGED scanVars

\* @layer with a body: the body is transformed and the result pushed
FlattenLayer ==
  /\ InLoop
  /\ rules[idx].type = "at-rule" /\ rules[idx].name = "layer"
  /\ HasTruthyBody(rules[idx])
  /\ Step

\* @layer without a body
SkipLayer ==
  /\ InLoop
  /\ rules[idx].type = "at-rule" /\ rules[idx].name = "layer"
  /\ ~HasTruthyBody(rules[idx])
  /\ Step

\* @keyframes is kept as it is
KeepKeyframes ==
  /\ InLoop
  /\ rules[idx].type = "at-rule" /\ rules[idx].name = "keyframes"
  /\ Step

\* every other at-rule is skipped
SkipAtRule ==
  /\ InLoop
  /\ rules[idx].type = "at-rule" /\ rules[idx].name \notin {"layer", "keyframes"}
  /\ Step

\* a rule skipped for its selector
SkipRule ==
  /\ InLoop
  /\ rules[idx].type = "rule"
  /\ RuleRejected(rules[idx])
  /\ Step

\* a rule with a surviving declaration is pushed
EmitRule ==
  /\ InLoop
  /\ rules[idx].type = "rule"
  /\ ~RuleRejected(rules[idx])
  /\ RuleOutput(rules[idx]) # <<>>
  /\ Step

\* a rule none of whose declarations survives
DropRule ==
  /\ InLoop
  /\ rules[idx].type = "rule"
  /\ ~RuleRejected(rules[idx])
  /\ RuleOutput(rules[idx]) = <<>>
  /\ Step

\* return output.join("\n\n")
Finish ==
  /\ pc = "loop"
  /\ idx > Len(rules)
  /\ result' = Join(output, "\n\n")
  /\ pc' = "done"
  /\ UNCHANGED <<doc, css, rules, idx, output, first, pass>>
  /\ UNCHANGED declVars
  /\ UNCHANGED scanVars

\* the transformer is run again on its own output
Reapply ==
  /\ pc = "done"
  /\ pass = 1
  /\ first' = result
  /\ css' = result
  /\ pass' = 2
  /\ pc' = "parse"
  /\ UNCHANGED <<doc, rules, idx, output, result>>
  /\ UNCHANGED declVars
  /\ UNCHANGED scanVars

Next ==
  \/ Parse
  \/ FlattenLayer
  \/ SkipLayer
  \/ KeepKeyframes
  \/ SkipAtRule
  \/ SkipRule
  \/ EmitRule
  \/ DropRule
  \/ Finish
  \/ Reapply

Spec == Init /\ [][Next]_vars

Done1 == pc = "done" /\ pass = 1
Done2 == pc = "done" /\ pass = 2

(***************************************************************************)
(* transformValue on its own: a value is a sequence of pieces, each a      *)
(* length in rem or em with the text expected for it, or other text.       *)
(***************************************************************************)
Piece(text, expect) == [text |-> text, expect |-> expect]

LengthPieces ==
  {Piece("1.5rem", "24"), Piece("2em", "32"), Piece(".5rem", "8"),
   Piece("0.25em", "4"), Piece("0.1rem", "1.6"), Piece("10rem", "160"),
   Piece("1 rem", "16")}

TextPieces ==
  {Piece(" ", " "), Piece("4px", "4px"), Piece("auto", "auto"),
   Piece("item", "item"), Piece("calc(", "calc("), Piece(" + ", " + "),
   Piece(")", ")")}

RECURSIVE PieceSeqs(_)
PieceSeqs(n) ==
  IF n = 0 THEN {<<>>}
  ELSE {<<q>> \o r : q \in LengthPieces \cup TextPieces, r \in PieceSeqs(n - 1)}

RECURSIVE Texts(_)
Texts(ps) == IF Len(ps) = 0 THEN "" ELSE ps[1].text \o Texts(Tail(ps))

RECURSIVE Expected(_)
Expected(ps) == IF Len(ps) = 0 THEN "" ELSE ps[1].expect \o Expected(Tail(ps))

InitValue ==
  /\ pieces \in UNION {PieceSeqs(n) : n \in 0..MaxPieces}
  /\ value = Texts(pieces)
  /\ converted = ""
  /\ pc = "value"
  /\ prop = ""
  /\ declResult = Dropped
  /\ doc = <<>> /\ css = "" /\ rules = <<>> /\ idx = 0 /\ output = <<>>
  /\ result = "" /\ first = "" /\ pass = 0
  /\ ScanIdle

ApplyTransformValue ==
  /\ pc = "value"
  /\ converted' = transformValue(value)
  /\ pc' = "value-done"
  /\ UNCHANGED <<pieces, prop, value, declResult>>
  /\ UNCHANGED docVars
  /\ UNCHANGED scanVars

NextValue == ApplyTransformValue

SpecValue == InitValue /\ [][NextValue]_vars

(***************************************************************************)
(* transformDeclaration on its own.                                        *)
(***************************************************************************)
DeclProps ==
  {"visibility", "vertical-align", "color", "margin", "display", "animation",
   "text-align", "--x", "--tw-ring-color", "--tw-space-x-reverse",
   "--tw-translate-x", "--tw-shadow", "--my-color"}

DeclValues ==
  {"hidden", "visible", "collapse", "middle", "top", "center", "inherit",
   "hidden !important", "1rem", "1.5em 2em", "currentColor",
   "color-mix(in srgb, red 50%, blue)", "100vh", "red"}

InitDecl ==
  /\ prop \in DeclProps
  /\ value \in DeclValues
  /\ declResult = Dropped
  /\ pc = "decl"
  /\ pieces = <<>>
  /\ converted = ""
  /\ doc = <<>> /\ css = "" /\ rules = <<>> /\ idx = 0 /\ output = <<>>
  /\ result = "" /\ first = "" /\ pass = 0
  /\ ScanIdle

ApplyTransformDeclaration ==
  /\ pc = "decl"
  /\ declResult' = transformDeclaration(prop, value)
  /\ pc' = "decl-done"
  /\ UNCHANGED <<pieces, prop, value, converted>>
  /\ UNCHANGED docVars
  /\ UNCHANGED scanVars

NextDecl == ApplyTransformDeclaration

SpecDecl == InitDecl /\ [][NextDecl]_vars

(***************************************************************************)
(* parseCSS step by step on text that need not be a stylesheet: its while  *)
(* loop one construct at a time, and the loop that counts braces one       *)
(* character at a time. `rules` is the array parseCSS fills.               *)
(***************************************************************************)
ScanTokens == {"@layer x", "@", "{", "}", ";", " ", "color:red"}

RECURSIVE TokenSeqs(_)
TokenSeqs(n) ==
  IF n = 0 THEN {<<>>}
  ELSE {<<t>> \o r : t \in ScanTokens, r \in TokenSeqs(n - 1)}

RECURSIVE Glued(_)
Glued(ts) == IF Len(ts) = 0 THEN "" ELSE ts[1] \o Glued(Tail(ts))

ScanInputs == {Glued(ts) : ts \in UNION {TokenSeqs(n) : n \in 0..MaxTokens}}

\* before the call
InitScan ==
  /\ css = ""
  /\ rules = <<>>
  /\ ScanIdle
  /\ pc = "call"
  /\ result = ""
  /\ doc = <<>> /\ idx = 0 /\ output = <<>> /\ first = "" /\ pass = 0
  /\ pieces = <<>> /\ prop = "" /\ value = "" /\ converted = ""
  /\ declResult = Dropped

\* what the scan leaves alone
ScanFrame == UNCHANGED <<doc, css, idx, output, first, pass>> /\ UNCHANGED declVars

\* the pattern /^@(\w+)([^{;]*)(;|\{)/ matches at i
AtRuleHeadAt(s, i) ==
  /\ Ch(s, i) = "@"
  /\ AtNameEnd(s, i) > i + 1
  /\ AtTerminator(s, AtNameEnd(s, i)) # 0

\* the position of the terminator the pattern matched, its third group
HeadEnd(s, i) == AtTerminator(s, AtNameEnd(s, i))

\* atRuleMatch[1]
HeadName(s, i) == SubSeq(s, i + 1, AtNameEnd(s, i) - 1)

\* atRuleMatch[2].trim()
HeadParams(s, i) == Trim(Slice(s, AtNameEnd(s, i), HeadEnd(s, i) - 1))

\* the node pushed once the block of the open construct has been scanned
Closed(h, body) ==
  IF h.type = "at-rule" THEN <<AtRule(h.name, h.params, TRUE, body)>>
  ELSE PushRule(h.selector, Trim(body), <<>>)

\* if (css[i] === "{") braceCount++; if (css[i] === "}") braceCount--
DepthAfter(d, c) == IF c = "{" THEN d + 1 ELSE IF c = "}" THEN d - 1 ELSE d

\* a plausible slip: the index not moved in the loop that counts braces
NextIndexStuck(k) == k

\* i++ in the loop that counts braces
NextIndex(k) == k + 1

\* parseCSS(css) is entered: const result = []; let i = 0
Call ==
  /\ pc = "call"
  /\ css' \in ScanInputs
  /\ rules' = <<>>
  /\ scanPos' = 1
  /\ pc' = "scan"
  /\ UNCHANGED <<depth, bodyStart, head, result>>
  /\ UNCHANGED <<doc, idx, output, first, pass>>
  /\ UNCHANGED declVars

\* the top of the while loop, i < css.length
AtScan == pc = "scan" /\ scanPos <= Len(css)

\* the construct at i, the white space skipped
AtConstruct == AtScan /\ Ch(css, scanPos) \notin Ws

\* while (i < css.length && /\s/.test(css[i])) i++, one character
SkipWhitespace ==
  /\ AtScan
  /\ Ch(css, scanPos) \in Ws
  /\ scanPos' = scanPos + 1
  /\ UNCHANGED <<rules, depth, bodyStart, head, pc, result>>
  /\ ScanFrame

\* let braceCount = 1; let bodyStart = i, the block starting at `start`;
\* the loop that counts braces is not entered at the end of the text
OpenBlock(newHead, start) ==
  /\ scanPos' = start
  /\ bodyStart' = start
  /\ depth' = 1
  /\ head' = newHead
  /\ IF start <= Len(css)
     THEN pc' = "brace" /\ rules' = rules
     ELSE pc' = "scan" /\ rules' = rules \o Closed(newHead, Slice(css, start, start - 2))
  /\ UNCHANGED result
  /\ ScanFrame

\* an at-rule ended by ";": pushed with body null
ScanAtRuleLine ==
  /\ AtConstruct
  /\ AtRuleHeadAt(css, scanPos)
  /\ Ch(css, HeadEnd(css, scanPos)) = ";"
  /\ rules' = Append(rules, AtRule(HeadName(css, scanPos), HeadParams(css, scanPos),
                                   FALSE, "null"))
  /\ scanPos' = HeadEnd(css, scanPos) + 1
  /\ UNCHANGED <<depth, bodyStart, head, pc, result>>
  /\ ScanFrame

\* an at-rule ended by "{": i += atRuleMatch[0].length, its block is open
ScanAtRuleBlock ==
  /\ AtConstruct
  /\ AtRuleHeadAt(css, scanPos)
  /\ Ch(css, HeadEnd(css, scanPos)) = "{"
  /\ OpenBlock(AtRule(HeadName(css, scanPos), HeadParams(css, scanPos), TRUE, ""),
               HeadEnd(css, scanPos) + 1)

\* a rule: the selector runs to the next "{", i = selectorEnd + 1
ScanSelector ==
  /\ AtConstruct
  /\ ~AtRuleHeadAt(css, scanPos)
  /\ IndexOfFrom(css, "{", scanPos) # 0
  /\ OpenBlock(Rule(Trim(Slice(css, scanPos, IndexOfFrom(css, "{", scanPos) - 1)), ""),
               IndexOfFrom(css, "{", scanPos) + 1)

\* if (selectorEnd === -1) break
ScanBreak ==
  /\ AtConstruct
  /\ ~AtRuleHeadAt(css, scanPos)
  /\ IndexOfFrom(css, "{", scanPos) = 0
  /\ pc' = "scanned"
  /\ UNCHANGED <<rules, result>>
  /\ UNCHANGED scanVars
  /\ ScanFrame

\* one character of the loop that counts braces; when the loop is left
\* the node is pushed with body css.slice(bodyStart, i - 1)
BraceStep ==
  /\ pc = "brace"
  /\ depth' = DepthAfter(depth, Ch(css, scanPos))
  /\ scanPos' = NextIndex(scanPos)
  /\ IF scanPos' <= Len(css) /\ depth' > 0
     THEN pc' = "brace" /\ rules' = rules
     ELSE pc' = "scan" /\ rules' = rules \o Closed(head, Slice(css, bodyStart, scanPos' - 2))
  /\ UNCHANGED <<bodyStart, head, result>>
  /\ ScanFrame

\* the condition of the while loop is false: return result
ScanExit ==
  /\ pc = "scan"
  /\ scanPos > Len(css)
  /\ pc' = "scanned"
  /\ UNCHANGED <<rules, result>>
  /\ UNCHANGED scanVars
  /\ ScanFrame

\* transformNativeScriptCSS on the array parseCSS returned
Return ==
  /\ pc = "scanned"
  /\ result' = Join(OutputOf(rules), "\n\n")
  /\ pc' = "returned"
  /\ UNCHANGED rules
  /\ UNCHANGED scanVars
  /\ ScanFrame

\* the steps of parseCSS
ScanStep ==
  \/ Call
  \/ SkipWhitespace
  \/ ScanAtRuleLine
  \/ ScanAtRuleBlock
  \/ ScanSelector
  \/ ScanBreak
  \/ BraceStep
  \/ ScanExit

NextScan == ScanStep \/ Return

\* the step from "scanned" to "returned": of NextScan only Return takes it,
\* and Return can be taken in every state with pc = "scanned"
Returns == pc = "scanned" /\ pc' = "returned"

\* the call is synchronous and single-threaded: a step that can be taken is
\* taken. WF_pc(Returns) is WF_vars(Return) with the enabling condition of
\* Return, pc = "scanned", written out.
SpecScan == InitScan /\ [][NextScan]_vars /\ WF_vars(ScanStep) /\ WF_pc(Returns)

(***************************************************************************)
(* Readings of the input stylesheet that the properties are stated with.   *)
(***************************************************************************)
RejectedSelector(selector) ==
  \E t \in {"&", ":hover", ":focus-within"} : Includes(selector, t)

\* the stylesheet without its rules of rejected selector, at any depth
RECURSIVE WithoutRejected(_)
WithoutRejected(items) ==
  IF Len(items) = 0 THEN <<>>
  ELSE LET it   == items[1]
           rest == WithoutRejected(Tail(items))
       IN  IF it.kind = "rule" /\ RejectedSelector(it.selector) THEN rest
           ELSE IF it.kind = "layer"
           THEN <<LayerItem(it.params, WithoutRejected(it.kids))>> \o rest
           ELSE <<it>> \o rest

\* the stylesheet without its at-rules other than @layer and @keyframes
RECURSIVE WithoutOtherAtRules(_)
WithoutOtherAtRules(items) ==
  IF Len(items) = 0 THEN <<>>
  ELSE LET it   == items[1]
           rest == WithoutOtherAtRules(Tail(items))
       IN  IF it.kind \in {"block", "line"} /\ it.name \notin {"layer", "keyframes"} THEN rest
           ELSE IF it.kind = "layer"
           THEN <<LayerItem(it.params, WithoutOtherAtRules(it.kids))>> \o rest
           ELSE <<it>> \o rest

\* the stylesheet with the content of every @layer block in its place
RECURSIVE Flattened(_)
Flattened(items) ==
  IF Len(items) = 0 THEN <<>>
  ELSE IF items[1].kind = "layer" THEN Flattened(items[1].kids) \o Flattened(Tail(items))
  ELSE <<items[1]>> \o Flattened(Tail(items))

ItemsOf(items) == {Flattened(items)[k] : k \in 1..Len(Flattened(items))}

\* the fragments of an output, the empty ones left out
Fragments(text) == SelectSeq(Split(text, "\n\n"), LAMBDA f : f # "")

(***************************************************************************)
(* C1.  Idempotence: transforming the output of transformNativeScriptCSS   *)
(* once more gives the same output.  Stated as the claim has it; the       *)
(* source does not have the property.                                      *)
(***************************************************************************)
C1_Idempotent == Done2 => result = first

(***************************************************************************)
(* C2.  A rule whose selector contains "&", ":hover" or ":focus-within",   *)
(* at top level or inside @layer blocks nested to any depth, contributes   *)
(* nothing: the output is the output of the stylesheet without such rules. *)
(***************************************************************************)
C2_RejectedRulesContributeNothing ==
  Done1 => result = transformNativeScriptCSS(RenderDoc(WithoutRejected(doc)))

C2_Witness ==
  /\ Done1
  /\ doc = <<HoverRule,
             LayerItem("components", <<LayerItem("base", <<GoodRule, HoverRule>>)>>)>>
  /\ result = ".a {\n  margin: 24;\n  color: red;\n}"

C4_LayersFlattened ==
  Done1 =>
    /\ ~Includes(result, "@layer")
    /\ Fragments(result) = Fragments(transformNativeScriptCSS(RenderDoc(Flattened(doc))))

C4_Witness ==
  /\ Done1
  /\ Len(doc) = 3
  /\ doc[1] = GoodRule
  /\ doc[2] = LayerItem("utilities",
                        <<GoodRule, LayerItem("base", <<SpinKeyframes, GoodRule>>), KeywordRule>>)
  /\ doc[3] = HoverRule
  /\ Len(Fragments(result)) = 5

(***************************************************************************)
(* C5.  A property that is neither a key of the support table nor a        *)
(* custom property, and that some declaration of the input has, is the     *)
(* property of no declaration of the output.  Stated as the claim has it;  *)
(* the source does not have the property.                                  *)
(***************************************************************************)
RuleProperties(items) ==
  UNION {{it.decls[k].prop : k \in 1..Len(it.decls)} : it \in {r \in ItemsOf(items) : r.kind = "rule"}}

C5_UnsupportedNeverEmitted ==
  Done1 =>
    \A p \in RuleProperties(doc) :
      (p \notin supportedProperties /\ ~StartsWith(p, "--"))
        => ~Includes(result, "  " \o p \o ": ")

(***************************************************************************)
(* C6.  A @keyframes block with a body, at top level or inside @layer      *)
(* blocks, is emitted as "@keyframes <params> {\n<body>\n}" with the       *)
(* params trimmed and the body as the input has it.                        *)
(***************************************************************************)
C6_KeyframesPassThrough ==
  Done1 =>
    \A k \in ItemsOf(doc) :
      (k.kind = "block" /\ k.name = "keyframes")
        => Includes(result, "@keyframes " \o Trim(k.params) \o " {\n" \o k.body \o "\n}")

C6_Witness ==
  /\ Done1
  /\ doc = <<LayerItem("base", <<SpinKeyframes, GoodRule>>)>>
  /\ Includes(result, "@keyframes spin {\n to { transform: rotate(360deg); margin: 1rem; } \n}")

(***************************************************************************)
(* C7.  transformValue replaces every number followed by rem or em (white  *)
(* space may stand between the two) by sixteen times the number, without   *)
(* the unit, and leaves the rest of the value as it is.                    *)
(***************************************************************************)
C7_UnitConversion == pc = "value-done" => converted = Expected(pieces)

C7_Witness ==
  /\ pc = "value-done"
  /\ pieces = <<Piece("1.5rem", "24"), Piece(" ", " "), Piece("0.25em", "4")>>
  /\ converted = "24 4"

(***************************************************************************)
(* C8.  transformDeclaration turns "visibility: hidden" into "visibility:  *)
(* collapse" and "vertical-align: middle" into "vertical-align: center";   *)
(* any other value of the two properties is kept as it is or dropped.      *)
(***************************************************************************)
C8_KeywordRenames ==
  pc = "decl-done" =>
    /\ (prop = "visibility" /\ value = "hidden")
         => declResult = Kept("visibility", "collapse")
    /\ (prop = "vertical-align" /\ value = "middle")
         => declResult = Kept("vertical-align", "center")
    /\ (/\ prop \in {"visibility", "vertical-align"}
        /\ <<prop, value>> \notin {<<"visibility", "hidden">>, <<"vertical-align", "middle">>})
         => \/ ~declResult.kept
            \/ declResult = Kept(prop, value)

C8_Witness ==
  /\ pc = "decl-done"
  /\ prop = "visibility"
  /\ value = "hidden"
  /\ declResult = Kept("visibility", "collapse")

(***************************************************************************)
(* C9.  The output is the surviving fragments with one blank line between  *)
(* two of them, and the empty string when everything was dropped.  Stated  *)
(* as the claim has it; the source does not have the property.             *)
(***************************************************************************)
C9_BlankLineSeparated ==
  Done1 =>
    /\ Trim(result) = "" => result = ""
    /\ result = Join(Fragments(result), "\n\n")

(***************************************************************************)
(* C10.  Placeholder rules.                                                *)
(***************************************************************************)
PlaceholderRules(items) ==
  {it \in ItemsOf(items) : it.kind = "rule" /\ Includes(it.selector, "::placeholder")}

ColorValues(it) == {it.decls[k].value : k \in {j \in 1..Len(it.decls) : it.decls[j].prop = "color"}}

WithoutPlaceholder(selector) == Trim(ReplaceAll(selector, "::placeholder", ""))

\* C10 as the claim has it: every color declaration of a rule whose
\* selector contains "::placeholder" is emitted as placeholder-color with
\* its value, under the selector without "::placeholder"; elsewhere color
\* is not renamed
C10_EveryColorRemapped ==
  Done1 =>
    /\ \A it \in PlaceholderRules(doc) : \A v \in ColorValues(it) :
         /\ Includes(result, WithoutPlaceholder(it.selector) \o " {\n")
         /\ Includes(result, "  placeholder-color: " \o v \o ";")
    /\ PlaceholderRules(doc) = {} => ~Includes(result, "placeholder-color")

\* the rule is emitted: its selector is not rejected and is not empty
\* once "::placeholder" is removed
SelectorEmitted(selector) ==
  ~RejectedSelector(selector) /\ WithoutPlaceholder(selector) # ""

\* the value passes the filter of declarations
ValueAccepted(v) ==
  /\ ~Includes(v, "color-mix")
  /\ ~Includes(v, "currentColor")
  /\ ~ \E unit \in {"max-content", "min-content", "vh", "vw"} : EndsWith(v, unit)

\* C10, amended: in an emitted rule whose selector contains
\* "::placeholder", every color declaration whose value passes the filter
\* of declarations is emitted as placeholder-color with its value, under
\* the selector without "::placeholder", and none is emitted as color;
\* elsewhere color is not renamed
C10_AcceptedColorRemapped ==
  Done1 =>
    /\ \A it \in PlaceholderRules(doc) : \A v \in ColorValues(it) :
         /\ (SelectorEmitted(it.selector) /\ ValueAccepted(v))
              => /\ Includes(result, WithoutPlaceholder(it.selector) \o " {\n")
                 /\ Includes(result, "  placeholder-color: " \o v \o ";")
         /\ ~Includes(result, "  color: " \o v \o ";")
    /\ PlaceholderRules(doc) = {} => ~Includes(result, "placeholder-color")

C10_Witness ==
  /\ Done1
  /\ doc = <<PlaceholderRule, GoodRule>>
  /\ result = "input {\n  placeholder-color: gray;\n}\n\n.a {\n  margin: 24;\n  color: red;\n}"

(***************************************************************************)
(* C11. Totality on malformed input: on every text, with unbalanced        *)
(* braces, an at-rule head without terminator or an "@" that starts no     *)
(* at-rule head, every step of the scan of parseCSS moves its index        *)
(* forward or leaves the loop, the call returns, and what it returns is    *)
(* the string transformNativeScriptCSS gives for the array parseCSS gives. *)
(***************************************************************************)
ScanAdvances == scanPos' > scanPos \/ pc' \in {"scanned", "returned"}

ScanReturned ==
  pc = "returned" => rules = parseCSS(css) /\ result = transformNativeScriptCSS(css)

C11_ScanTerminates ==
  /\ [][ScanAdvances]_vars
  /\ []ScanReturned
  /\ <>(pc = "returned")

\* a block that is never closed: the scan ends at the end of the text
C11_Witness ==
  /\ pc = "returned"
  /\ css = "color:red{color:red"
  /\ scanPos = Len(css) + 1
  /\ result = "color:red {\n  color: re;\n}"

(***************************************************************************)
(* C12. Custom-property exemption: a declaration whose property starts     *)
(* with "--" and has none of the internal-framework names is kept by       *)
(* transformDeclaration with its property unchanged and its value changed  *)
(* by the rem/em conversion only, and a rule that is not rejected comes    *)
(* out with it. As the claim has it, whatever the value is, the source     *)
(* does not have the property; it has it for the values that contain       *)
(* neither "color-mix" nor "currentColor".                                 *)
(***************************************************************************)
CustomProperty(p) == StartsWith(p, "--")

InternalName(p) ==
  \/ \E prefix \in {"--tw-ring", "--tw-shadow", "--tw-ordinal", "--tw-slashed-zero",
                    "--tw-numeric"} : StartsWith(p, prefix)
  \/ \E name \in {"--tw-divide-x-reverse", "--tw-divide-y-reverse",
                  "--tw-space-x-reverse", "--tw-space-y-reverse"} : Includes(p, name)

\* the selectors of rules that are not rejected
AcceptedSelectors == {".a", ":root", "input::placeholder"}

\* the declaration is kept, and the rule of selector sel that holds it alone
\* comes out with it
CustomKept(sel) ==
  /\ declResult = Kept(prop, transformValue(value))
  /\ RuleOutput(Rule(sel, prop \o ": " \o value \o ";"))
       = <<transformSelector(sel) \o " {\n  " \o prop \o ": " \o transformValue(value) \o ";\n}">>

C12_CustomAlwaysKept ==
  (pc = "decl-done" /\ CustomProperty(prop) /\ ~InternalName(prop))
    => \A sel \in AcceptedSelectors : CustomKept(sel)

ColorValueDropped(v) == Includes(v, "color-mix") \/ Includes(v, "currentColor")

C12_CustomKeptUnlessColorValue ==
  (pc = "decl-done" /\ CustomProperty(prop) /\ ~InternalName(prop)
     /\ ~ColorValueDropped(value))
    => \A sel \in AcceptedSelectors : CustomKept(sel)

\* a custom property with a value the support table would refuse
C12_Witness ==
  /\ pc = "decl-done"
  /\ prop = "--tw-translate-x"
  /\ value = "100vh"
  /\ declResult = Kept("--tw-translate-x", "100vh")
  /\ RuleOutput(Rule(".a", "--tw-translate-x: 100vh;")) = <<".a {\n  --tw-translate-x: 100vh;\n}">>

====
